---- MODULE Spec2Model ----
(***************************************************************************)
(* Model of mountain_journal.py: a menu-driven journal that keeps one      *)
(* directory per climb under app_data/, a climb_data.json record in each,  *)
(* and payload files under journal_entries/{text,audio,images}.            *)
(*                                                                         *)
(* Strings the code inspects character by character (climb names, typed    *)
(* answers) are sequences of one-character strings.  A timestamp is the    *)
(* value of a clock that every datetime.now() call reads and advances.     *)
(***************************************************************************)
EXTENDS Integers, Sequences, FiniteSets, TLC

VARIABLES
    rootExists,   \* app_data/ exists on disk
    store,        \* climb directory name -> contents of that directory
    clock,        \* the next value datetime.now() returns
    rng,          \* how many values the random generator has drawn for get_location()
    proc,         \* "running", "exited" (exit()), "crashed" (uncaught exception)
    op,           \* the menu option handled last
    out,          \* the messages the last handler printed, in order
    asked,        \* the climb names typed at the name prompt in the last handler
    typed,        \* the entry type typed in the last handler (<<>>: not prompted)
    answered,     \* the yes/no answer typed in the last handler (<<>>: not prompted)
    listed,       \* the lines list_climbs printed last: <<name, marked active>>
    prevRoot,     \* rootExists before the last handler
    prev,         \* store before the last handler (before the last step, when
                  \* several processes run)
    pc,           \* several processes: where each is in the handler it runs
    local,        \* several processes: the local variables of each one's handler
    actor         \* several processes: the one that took the last step (0: none)

vars ==
    <<rootExists, store, clock, rng, proc, op, out, asked, typed, answered, listed,
      prevRoot, prev, pc, local, actor>>

-----------------------------------------------------------------------------
(* Bounds of the model *)

\* datetime.now() is read at most this many times before the model stops
\* offering the options that read it
MaxClock == 5

-----------------------------------------------------------------------------
(* Inputs *)

\* what the user may type at "Enter a name for your climb (no spaces): "
NameInputs ==
    { <<>>,
      <<"a">>,
      <<" ", "a">>,
      <<"a", "1">>,
      <<"a", " ", "b">>,
      <<"a", "\t", "b">> }

\* what the user may type at "Entry type (text, audio, image): "
EntryTypeInputs ==
    { <<"t", "e", "x", "t">>,
      <<"A", "u", "d", "i", "o", " ">>,
      <<"i", "m", "a", "g", "e">>,
      <<"v", "i", "d", "e", "o">> }

\* what the user may type at a yes/no prompt
ConfirmInputs == { <<"y", "e", "s">>, <<" ", "Y", "E", "S">>, <<"n", "o">>, <<>> }

\* what the user may type as the entry's content
EntryData == { "summit" }

-----------------------------------------------------------------------------
(* str methods *)

Whitespace == { " ", "\t", "\n" }

RECURSIVE LStrip(_)
LStrip(s) ==
    IF s # <<>> /\ Head(s) \in Whitespace THEN LStrip(Tail(s)) ELSE s

RECURSIVE RStrip(_)
RStrip(s) ==
    IF s # <<>> /\ s[Len(s)] \in Whitespace
    THEN RStrip(SubSeq(s, 1, Len(s) - 1))
    ELSE s

\* str.strip()
Strip(s) == RStrip(LStrip(s))

LowerChar(c) ==
    CASE c = "A" -> "a"
      [] c = "E" -> "e"
      [] c = "S" -> "s"
      [] c = "Y" -> "y"
      [] OTHER -> c

\* str.lower()
Lower(s) == [i \in DOMAIN s |-> LowerChar(s[i])]

\* " " in climb_name
HasSpace(s) == \E i \in DOMAIN s : s[i] = " "

DigitChar(d) ==
    CASE d = 0 -> "0" [] d = 1 -> "1" [] d = 2 -> "2" [] d = 3 -> "3"
      [] d = 4 -> "4" [] d = 5 -> "5" [] d = 6 -> "6" [] d = 7 -> "7"
      [] d = 8 -> "8" [] d = 9 -> "9"

\* f"{counter}": the decimal digits of a natural number
RECURSIVE Str(_)
Str(k) ==
    IF k < 10 THEN <<DigitChar(k)>> ELSE Str(k \div 10) \o <<DigitChar(k % 10)>>

\* needle in haystack, for strings
IsSubstring(needle, haystack) ==
    \E i \in 0 .. (Len(haystack) - Len(needle)) :
        SubSeq(haystack, i + 1, i + Len(needle)) = needle

-----------------------------------------------------------------------------
(* Files and records *)

\* a climb record lacks end_time
LacksEndTime(climb) == "end_time" \notin DOMAIN climb

\* what a climb_data.json holds when it is not valid JSON, as after a write
\* cut short once open(path, "w") has truncated the file
Garbage == [not_json |-> TRUE]

\* the climb directories whose climb_data.json json.load() cannot parse
Corrupt(s) == { id \in DOMAIN s : s[id].json = <<Garbage>> }

\* the climb directories whose climb_data.json holds a record without end_time
ActiveClimbs(s) ==
    { id \in DOMAIN s \ Corrupt(s) :
        s[id].json # <<>> /\ LacksEndTime(s[id].json[1]) }

\* whether json.load() raises during the walk of is_active_climb(): never when
\* every file parses, always when no record lacking end_time ends the walk,
\* and otherwise as the directory order of os.walk has it
ScanRaises(s) ==
    IF Corrupt(s) = {} THEN { FALSE }
    ELSE IF ActiveClimbs(s) = {} THEN { TRUE }
    ELSE { TRUE, FALSE }

\* is_active_climb() when "end_time" is not looked at: the first record found
IsActiveClimbAnyRecord(s) ==
    LET found == { id \in DOMAIN s : s[id].json # <<>> }
    IN  IF found = {} THEN <<>> ELSE <<CHOOSE id \in found : TRUE>>

\* is_active_climb() that never finds a climb
IsActiveClimbNever(s) == <<>>

\* is_active_climb(): <<>> for None, <<id>> for the path of a record that lacks
\* end_time; which one when there are several is the directory order of os.walk
IsActiveClimb(s) ==
    IF ActiveClimbs(s) = {} THEN <<>> ELSE <<CHOOSE id \in ActiveClimbs(s) : TRUE>>

\* print(...)
Say(w, msg) == [w EXCEPT !.out = Append(@, msg)]

\* an exception nothing catches: the traceback is printed and the process ends
Traceback(w, error) == [Say(w, <<error>>) EXCEPT !.proc = "crashed"]

\* json.JSONDecodeError leaving is_active_climb(), the handler and main()
ScanRaised(w) == Traceback(w, "JSONDecodeError")

\* ensure_app_data_folder()
EnsureAppDataFolder(w) == [w EXCEPT !.root = TRUE]

\* create_journal_entry_folders(): the three payload folders
JournalEntryFolders == { "text", "audio", "images" }

\* os.path.exists(os.path.join("app_data", name)), app_data/ existing:
\* the empty name joins to "app_data/" itself
PathExists(s, name) == name = <<>> \/ name \in DOMAIN s

\* the numbering that appends 1 to a taken name without checking the result
UniqueDirNoRecheck(s, original, counter) ==
    IF PathExists(s, original) THEN original \o Str(1) ELSE original

\* the numbering loop of get_climb_filename(): original, original1, original2, ...
RECURSIVE UniqueDir(_, _, _)
UniqueDir(s, original, counter) ==
    LET dir == IF counter = 0 THEN original ELSE original \o Str(counter)
    IN  IF PathExists(s, dir) THEN UniqueDir(s, original, counter + 1) ELSE dir

\* os.makedirs(climb_dir); create_journal_entry_folders(climb_dir)
MakeClimbDir(w, dir) ==
    IF dir \in DOMAIN w.store
    THEN [w EXCEPT !.proc = "crashed"]      \* FileExistsError
    ELSE [w EXCEPT !.store = (dir :> [json |-> <<>>,
                                      folders |-> JournalEntryFolders,
                                      payloads |-> <<>>]) @@ @]

\* with open(path, "w") as f: json.dump(climb, f)
WriteJson(w, id, climb) == [w EXCEPT !.store[id].json = <<climb>>]

\* the name prompt accepts this typed line
Accepted(line) == ~HasSpace(Strip(line))

\* the lines typed at the name prompt end the loop: all but the last are refused
ValidInputs(inputs) ==
    /\ inputs # <<>>
    /\ \A i \in DOMAIN inputs : Accepted(inputs[i]) <=> i = Len(inputs)

\* the while True loop of get_climb_filename(), one typed line per iteration
RECURSIVE NameLoop(_, _)
NameLoop(w, inputs) ==
    IF inputs = <<>>
    THEN [w |-> [w EXCEPT !.proc = "waiting"], dir |-> <<>>]   \* blocked in input()
    ELSE LET climb_name == Strip(Head(inputs))
             w1 == [w EXCEPT !.asked = Append(@, Head(inputs))]
         IN  IF HasSpace(climb_name)
             THEN NameLoop(Say(w1, <<"no_spaces">>), Tail(inputs))
             ELSE LET dir == UniqueDir(w1.store, climb_name, 0)
                  IN  [w |-> MakeClimbDir(w1, dir), dir |-> dir]

\* get_climb_filename()
GetClimbFilename(w, inputs) == NameLoop(EnsureAppDataFolder(w), inputs)

\* datetime.now().isoformat(): the clock's value
Now(w) == w.clock

\* the clock after datetime.now() was read
Tick(w) == [w EXCEPT !.clock = @ + 1]

\* get_location(): the (latitude, longitude) the generator's next two draws
\* give; successive calls give different pairs
GetLocation(w) == <<w.rng, 2 * w.rng>>

\* the generator after get_location() was called
Drawn(w) == [w EXCEPT !.rng = @ + 1]

\* the record of start_climb() with the end fields of end_climb() filled in too
NewClimbClosed(start_time, start_location) ==
    [start_time |-> start_time, start_location |-> start_location,
     entries |-> <<>>, end_time |-> start_time, end_location |-> start_location]

\* the record start_climb() writes
NewClimb(start_time, start_location) ==
    [start_time |-> start_time, start_location |-> start_location, entries |-> <<>>]

\* start_climb() that asks for the name and creates the directory before it
\* looks for an active climb
StartClimbDirFirst(w, inputs) ==
    LET r == GetClimbFilename(w, inputs)
        active_climb == IsActiveClimb(w.store)
    IN  IF r.w.proc # "running"
        THEN r.w
        ELSE IF active_climb # <<>>
        THEN Say(r.w, <<"already_active", active_climb[1]>>)
        ELSE Say(WriteJson(Drawn(Tick(r.w)), r.dir,
                           NewClimb(Now(r.w), GetLocation(r.w))),
                 <<"started", r.dir>>)

\* start_climb()
StartClimb(w, inputs) ==
    LET active_climb == IsActiveClimb(w.store)
    IN  IF active_climb # <<>>
        THEN Say(w, <<"already_active", active_climb[1]>>)
        ELSE LET r == GetClimbFilename(w, inputs)
                 start_time == Now(r.w)
                 start_location == GetLocation(r.w)
             IN  IF r.w.proc # "running"
                 THEN r.w
                 ELSE Say(WriteJson(Drawn(Tick(r.w)), r.dir,
                                    NewClimb(start_time, start_location)),
                          <<"started", r.dir>>)

\* the entry types log_entry() knows, as typed
TextType == <<"t", "e", "x", "t">>
AudioType == <<"a", "u", "d", "i", "o">>
ImageType == <<"i", "m", "a", "g", "e">>
EntryTypes == { TextType, AudioType, ImageType }

\* the "type" field, payload folder and extension of each branch of log_entry()
EntryKind(entry_type) ==
    CASE entry_type = TextType -> [type |-> "text", folder |-> "text", ext |-> ".txt"]
      [] entry_type = AudioType -> [type |-> "audio", folder |-> "audio", ext |-> ".mp3"]
      [] entry_type = ImageType -> [type |-> "image", folder |-> "images", ext |-> ".jpg"]

\* the entry built without its payload file being written
WritePayloadSkipped(w, id, path, entry_data) == w

\* with open(entry_file, "w") as file: file.write(entry_data)
WritePayload(w, id, path, entry_data) ==
    [w EXCEPT !.store[id].payloads = (path :> entry_data) @@ @]

\* the new entry put in front of climb["entries"]
PrependEntry(entries, entry) == <<entry>> \o entries

\* climb["entries"].append(entry)
AppendEntry(entries, entry) == Append(entries, entry)

\* log_entry() with an else branch that stores an unknown type as text
LogIntoDefaultText(w, id, raw_type, entry_data) ==
    LET climb == w.store[id].json[1]
        entry_type == Lower(Strip(raw_type))
        kind == EntryKind(IF entry_type \in EntryTypes THEN entry_type ELSE TextType)
        entry == [type |-> kind.type,
                  time |-> Now(w),
                  location |-> GetLocation(w),
                  file_path |-> <<id, kind.folder, Now(w), kind.ext>>]
        w1 == Drawn(Tick([w EXCEPT !.typed = <<raw_type>>]))
        w2 == WritePayload(w1, id, <<kind.folder, Now(w), kind.ext>>, entry_data)
    IN  Say(WriteJson(w2, id, [climb EXCEPT !.entries = AppendEntry(@, entry)]),
            <<"logged">>)

\* log_entry() from the point where the active climb's record is read
LogInto(w, id, raw_type, entry_data) ==
    LET climb == w.store[id].json[1]
        entry_type == Lower(Strip(raw_type))
        entry_time == Now(w)
        entry_location == GetLocation(w)
        w1 == Drawn(Tick([w EXCEPT !.typed = <<raw_type>>]))
    IN  IF entry_type \in EntryTypes
        THEN LET kind == EntryKind(entry_type)
                 entry == [type |-> kind.type,
                           time |-> entry_time,
                           location |-> entry_location,
                           file_path |-> <<id, kind.folder, entry_time, kind.ext>>]
                 w2 == WritePayload(w1, id, <<kind.folder, entry_time, kind.ext>>,
                                    entry_data)
                 w3 == WriteJson(w2, id,
                                 [climb EXCEPT !.entries = AppendEntry(@, entry)])
             IN  Say(w3, <<"logged">>)
        ELSE Say(w1, <<"invalid_type">>)

\* log_entry() that starts a climb and returns without logging into it
LogEntryStartOnly(w, inputs, raw_type, entry_data) ==
    LET active0 == IsActiveClimb(w.store)
    IN  IF active0 = <<>>
        THEN StartClimb(Say(w, <<"autostart">>), inputs)
        ELSE LogInto(w, active0[1], raw_type, entry_data)

\* log_entry()
LogEntry(w, inputs, raw_type, entry_data) ==
    LET active0 == IsActiveClimb(w.store)
        w1 == IF active0 = <<>>
              THEN StartClimb(Say(w, <<"autostart">>), inputs)
              ELSE w
        active_climb == IF active0 = <<>> THEN IsActiveClimb(w1.store) ELSE active0
    IN  IF w1.proc # "running"
        THEN w1
        ELSE IF active_climb = <<>>
        THEN [w1 EXCEPT !.proc = "crashed"]     \* os.path.dirname(None): TypeError
        ELSE LogInto(w1, active_climb[1], raw_type, entry_data)

\* end_climb() that builds a fresh record stamped with the end values only
SetEndRestamped(climb, end_time, end_location) ==
    [start_time |-> end_time,
     start_location |-> end_location,
     entries |-> climb.entries,
     end_time |-> end_time,
     end_location |-> end_location]

\* climb["end_time"] = end_time; climb["end_location"] = end_location
SetEnd(climb, end_time, end_location) ==
    [start_time |-> climb.start_time,
     start_location |-> climb.start_location,
     entries |-> climb.entries,
     end_time |-> end_time,
     end_location |-> end_location]

\* end_climb() that takes whatever record the scan finds, ended or not
EndClimbAnyRecord(w) ==
    LET active_climb == IsActiveClimbAnyRecord(w.store)
    IN  IF active_climb = <<>>
        THEN Say(w, <<"no_active">>)
        ELSE Say(WriteJson(Drawn(Tick(w)), active_climb[1],
                           SetEnd(w.store[active_climb[1]].json[1], Now(w),
                                  GetLocation(w))),
                 <<"ended", active_climb[1]>>)

\* end_climb()
EndClimb(w) ==
    LET active_climb == IsActiveClimb(w.store)
    IN  IF active_climb = <<>>
        THEN Say(w, <<"no_active">>)
        ELSE LET id == active_climb[1]
                 climb == w.store[id].json[1]
                 end_time == Now(w)
                 end_location == GetLocation(w)
             IN  Say(WriteJson(Drawn(Tick(w)), id,
                               SetEnd(climb, end_time, end_location)),
                     <<"ended", id>>)

\* input(...).strip().lower() == "yes"
SaidYes(confirm) == Lower(Strip(confirm)) = <<"y", "e", "s">>

\* confirm = input(...): the answer typed, if one is
Confirm(w, answers) ==
    IF answers = <<>>
    THEN [w EXCEPT !.proc = "waiting"]      \* blocked in input()
    ELSE [w EXCEPT !.answered = <<Head(answers)>>]

\* shutil.rmtree("app_data")
RmTree(w) ==
    IF w.root
    THEN [w EXCEPT !.root = FALSE, !.store = <<>>]
    ELSE [w EXCEPT !.proc = "crashed"]      \* FileNotFoundError

\* clear_climbs() from the confirmation prompt on
ClearConfirmed(w, answers) ==
    LET w1 == Confirm(w, answers)
    IN  IF w1.proc # "running"
        THEN w1
        ELSE IF SaidYes(w1.answered[1])
        THEN LET w2 == RmTree(w1)
             IN  IF w2.proc # "running"
                 THEN w2
                 ELSE Say(EnsureAppDataFolder(w2), <<"cleared">>)
        ELSE Say(w1, <<"cancelled">>)

\* clear_climbs() without the look for an active climb
ClearClimbsUnguarded(w, answers) == ClearConfirmed(w, answers)

\* clear_climbs()
ClearClimbs(w, answers) ==
    LET active_climb == IsActiveClimb(w.store)
    IN  IF active_climb # <<>>
        THEN Say(w, <<"cannot_clear", active_climb[1]>>)
        ELSE ClearConfirmed(w, answers)

\* exit_program() that exits on "yes" without calling end_climb()
ExitProgramNoEnd(w, answers) ==
    LET active_climb == IsActiveClimb(w.store)
        w1 == Confirm(w, answers)
    IN  IF active_climb # <<>>
        THEN IF w1.proc # "running"
             THEN w1
             ELSE IF SaidYes(w1.answered[1])
             THEN [Say(w1, <<"exiting">>) EXCEPT !.proc = "exited"]
             ELSE Say(w1, <<"continuing">>)
        ELSE [Say(w, <<"exiting_none_active">>) EXCEPT !.proc = "exited"]

\* exit_program()
ExitProgram(w, answers) ==
    LET active_climb == IsActiveClimb(w.store)
        w1 == Confirm(w, answers)
    IN  IF active_climb # <<>>
        THEN IF w1.proc # "running"
             THEN w1
             ELSE IF SaidYes(w1.answered[1])
             THEN [Say(EndClimb(w1), <<"exiting">>) EXCEPT !.proc = "exited"]
             ELSE Say(w1, <<"continuing">>)
        ELSE [Say(w, <<"exiting_none_active">>) EXCEPT !.proc = "exited"]

\* the path is_active_climb() returns: app_data/<id>/climb_data.json
ClimbFilePath(id) ==
    <<"a", "p", "p", "_", "d", "a", "t", "a", "/">> \o id
        \o <<"/", "c", "l", "i", "m", "b", "_", "d", "a", "t", "a",
             ".", "j", "s", "o", "n">>

\* list_climbs()
ListClimbs(w) ==
    LET w1 == EnsureAppDataFolder(w)
        climbs == DOMAIN w1.store
        active_climb == IsActiveClimb(w1.store)
    IN  IF climbs = {}
        THEN Say(w1, <<"no_climbs">>)
        ELSE [w1 EXCEPT !.listed =
                 { <<climb, active_climb # <<>>
                            /\ IsSubstring(climb, ClimbFilePath(active_climb[1]))>> :
                   climb \in climbs }]

-----------------------------------------------------------------------------
(* The menu loop *)

\* the runs of lines a user may type at the name prompt of one handler: none,
\* an accepted line, or a refused line and then an accepted one
NameAttempts ==
    { <<>> } \cup
    { inputs \in { <<n>> : n \in NameInputs }
                    \cup { <<r, n>> : r \in NameInputs, n \in NameInputs } :
        ValidInputs(inputs) }

\* the answers a user may type at the yes/no prompt of one handler
Answers == { <<>> } \cup { <<c>> : c \in ConfirmInputs }

\* the state a handler starts from
World ==
    [root |-> rootExists, store |-> store, clock |-> clock, rng |-> rng,
     proc |-> proc, out |-> <<>>, asked |-> <<>>, typed |-> <<>>,
     answered |-> <<>>, listed |-> {}]

\* the handler returned (or ended the process) having read exactly the lines
\* the user typed at its prompts
Finished(w, inputs, answers) ==
    /\ w.proc # "waiting"
    /\ w.asked = inputs
    /\ w.answered = answers

\* the processes that share app_data/ when several run at once
Procs == { 1, 2 }

\* a process at the menu, no handler running
AtMenu ==
    [caller |-> "none", dir |-> <<>>, active_climb |-> <<>>, climb |-> <<>>,
     entry |-> <<>>, entry_data |-> ""]

\* the state a handler leaves
Handled(option, w) ==
    /\ UNCHANGED <<pc, local, actor>>
    /\ rootExists' = w.root
    /\ store' = w.store
    /\ clock' = w.clock
    /\ rng' = w.rng
    /\ proc' = w.proc
    /\ op' = option
    /\ out' = w.out
    /\ asked' = w.asked
    /\ typed' = w.typed
    /\ answered' = w.answered
    /\ listed' = w.listed
    /\ prevRoot' = rootExists
    /\ prev' = store

Init ==
    /\ rootExists = FALSE
    /\ store = <<>>
    /\ clock = 0
    /\ rng = 0
    /\ proc = "running"
    /\ op = "none"
    /\ out = <<>>
    /\ asked = <<>>
    /\ typed = <<>>
    /\ answered = <<>>
    /\ listed = {}
    /\ prevRoot = FALSE
    /\ prev = <<>>
    /\ pc = [p \in Procs |-> "menu"]
    /\ local = [p \in Procs |-> AtMenu]
    /\ actor = 0

\* choice "1"
Start ==
    /\ proc = "running"
    /\ clock < MaxClock
    /\ \E raised \in ScanRaises(store) :
          IF raised
          THEN Handled("start", ScanRaised(World))
          ELSE \E inputs \in NameAttempts :
                  LET w == StartClimb(World, inputs)
                  IN  Finished(w, inputs, <<>>) /\ Handled("start", w)

\* choice "2"
Log ==
    /\ proc = "running"
    /\ clock < MaxClock
    /\ \E raised \in ScanRaises(store) :
          IF raised
          THEN Handled("log", ScanRaised(World))
          ELSE \E inputs \in NameAttempts, raw_type \in EntryTypeInputs,
                  entry_data \in EntryData :
                  LET w == LogEntry(World, inputs, raw_type, entry_data)
                  IN  Finished(w, inputs, <<>>) /\ Handled("log", w)

\* choice "3"
End ==
    /\ proc = "running"
    /\ clock < MaxClock
    /\ \E raised \in ScanRaises(store) :
          Handled("end", IF raised THEN ScanRaised(World) ELSE EndClimb(World))

\* choice "4"
List ==
    /\ proc = "running"
    /\ \E raised \in ScanRaises(store) :
          Handled("list", IF raised THEN ScanRaised(EnsureAppDataFolder(World))
                                    ELSE ListClimbs(World))

\* choice "5"
Clear ==
    /\ proc = "running"
    /\ \E raised \in ScanRaises(store) :
          IF raised
          THEN Handled("clear", ScanRaised(World))
          ELSE \E answers \in Answers :
                  LET w == ClearClimbs(World, answers)
                  IN  Finished(w, <<>>, answers) /\ Handled("clear", w)

\* choice "6"
Exit ==
    /\ proc = "running"
    /\ clock < MaxClock
    /\ \E raised \in ScanRaises(store) :
          IF raised
          THEN Handled("exit", ScanRaised(World))
          ELSE \E answers \in Answers :
                  LET w == ExitProgram(World, answers)
                  IN  Finished(w, <<>>, answers) /\ Handled("exit", w)

Next == Start \/ Log \/ End \/ List \/ Clear \/ Exit

Spec == Init /\ [][Next]_vars

\* a climb_data.json the program wrote is left as something json.load() cannot
\* parse: the write was cut short after the file was truncated, or the file
\* was changed from outside the program
Damage ==
    /\ proc = "running"
    /\ \E id \in DOMAIN store \ Corrupt(store) :
          /\ store[id].json # <<>>
          /\ store' = [store EXCEPT ![id].json = <<Garbage>>]
          /\ op' = "damage"
          /\ prev' = store
          /\ prevRoot' = rootExists
          /\ UNCHANGED <<rootExists, clock, rng, proc, out, asked, typed, answered,
                         listed, pc, local, actor>>

NextCorrupt == Next \/ Damage

\* the menu loop over a store whose state files may be damaged
SpecCorrupt == Init /\ [][NextCorrupt]_vars

-----------------------------------------------------------------------------
(* Several processes on one app_data/.  Each runs start_climb(), log_entry() *)
(* and end_climb() as the sequence of file-system calls the handler makes;   *)
(* the calls of different processes interleave.  A step is one scan, one     *)
(* prompt, one directory creation or one file read or write.                 *)

\* a process starts no handler once datetime.now() was read this many times
MaxConcClock == 3

\* what a user may type at the name prompt when several processes run
ConcNameInputs == { <<"a">>, <<"a", " ", "b">> }

\* a scan that reports no active climb whatever the records hold
ScansNone(s) == { <<>> }

\* what is_active_climb() may return: None, or the path of a record lacking
\* end_time; with several such records the directory order of os.walk decides
Scans(s) ==
    IF IsActiveClimb(s) = <<>> THEN { <<>> }
    ELSE { <<id>> : id \in ActiveClimbs(s) }

\* the state one step of process p leaves
Stepped(p, step, next_pc, next_local, w) ==
    /\ rootExists' = w.root
    /\ store' = w.store
    /\ clock' = w.clock
    /\ rng' = w.rng
    /\ pc' = [pc EXCEPT ![p] = next_pc]
    /\ local' = [local EXCEPT ![p] = next_local]
    /\ actor' = p
    /\ op' = step
    /\ prev' = store
    /\ UNCHANGED <<proc, out, asked, typed, answered, listed, prevRoot>>

\* start_climb(): active_climb = is_active_climb()
CStartScan(p) ==
    /\ pc[p] = "menu"
    /\ clock < MaxConcClock
    /\ \E found \in Scans(store) :
          IF found # <<>>
          THEN Stepped(p, "start_refused", "menu", AtMenu, World)
          ELSE Stepped(p, "start_scan", "s_name",
                       [AtMenu EXCEPT !.caller = "start"], World)

\* get_climb_filename(): one turn of the prompt loop, up to the free name found
CName(p) ==
    /\ pc[p] = "s_name"
    /\ \E line \in ConcNameInputs :
          IF HasSpace(Strip(line))
          THEN Stepped(p, "name_refused", "s_name", local[p],
                       EnsureAppDataFolder(World))
          ELSE Stepped(p, "name", "s_mkdir",
                       [local[p] EXCEPT !.dir = UniqueDir(store, Strip(line), 0)],
                       EnsureAppDataFolder(World))

\* get_climb_filename(): os.makedirs(climb_dir) and the journal entry folders
CMkdir(p) ==
    /\ pc[p] = "s_mkdir"
    /\ IF MakeClimbDir(World, local[p].dir).proc = "crashed"
       THEN Stepped(p, "mkdir", "crashed", local[p], World)
       ELSE Stepped(p, "mkdir", "s_write", local[p],
                    MakeClimbDir(World, local[p].dir))

\* start_climb(): the record written into the new directory
CWriteNew(p) ==
    /\ pc[p] = "s_write"
    /\ Stepped(p, "s_write",
               IF local[p].caller = "log" THEN "l_rescan" ELSE "menu",
               local[p],
               WriteJson(Drawn(Tick(World)), local[p].dir,
                         NewClimb(Now(World), GetLocation(World))))

\* log_entry(): active_climb = is_active_climb()
CLogScan(p) ==
    /\ pc[p] = "menu"
    /\ clock < MaxConcClock
    /\ \E found \in Scans(store) :
          IF found = <<>>
          THEN Stepped(p, "log_scan", "l_start", [AtMenu EXCEPT !.caller = "log"],
                       World)
          ELSE Stepped(p, "log_scan", "l_read",
                       [AtMenu EXCEPT !.caller = "log", !.active_climb = found],
                       World)

\* log_entry() calls start_climb(): the scan of start_climb()
CAutoStartScan(p) ==
    /\ pc[p] = "l_start"
    /\ \E found \in Scans(store) :
          Stepped(p, "autostart_scan",
                  IF found # <<>> THEN "l_rescan" ELSE "s_name", local[p], World)

\* log_entry(): active_climb = is_active_climb() after start_climb() returned
CRescan(p) ==
    /\ pc[p] = "l_rescan"
    /\ \E found \in Scans(store) :
          IF found = <<>>
          THEN Stepped(p, "log_rescan", "crashed", local[p], World)   \* TypeError
          ELSE Stepped(p, "log_rescan", "l_read",
                       [local[p] EXCEPT !.active_climb = found], World)

\* log_entry(): climb = json.load(f)
CRead(p) ==
    /\ pc[p] = "l_read"
    /\ Stepped(p, "l_read", "l_type",
               [local[p] EXCEPT !.climb = store[local[p].active_climb[1]].json],
               World)

\* log_entry(): the entry type and content typed, the time and location read
CType(p) ==
    /\ pc[p] = "l_type"
    /\ \E raw_type \in EntryTypeInputs, entry_data \in EntryData :
          IF Lower(Strip(raw_type)) \in EntryTypes
          THEN LET kind == EntryKind(Lower(Strip(raw_type)))
                   entry == [type |-> kind.type,
                             time |-> Now(World),
                             location |-> GetLocation(World),
                             file_path |-> <<local[p].active_climb[1], kind.folder,
                                             Now(World), kind.ext>>]
               IN  Stepped(p, "l_type", "l_payload",
                           [local[p] EXCEPT !.entry = <<entry>>,
                                            !.entry_data = entry_data],
                           Drawn(Tick(World)))
          ELSE Stepped(p, "l_type", "menu", local[p], Drawn(Tick(World)))

\* log_entry(): the payload file written
CPayload(p) ==
    /\ pc[p] = "l_payload"
    /\ Stepped(p, "l_payload", "l_write", local[p],
               WritePayload(World, local[p].active_climb[1],
                            Tail(local[p].entry[1].file_path), local[p].entry_data))

\* the record written back after reading it again from disk
LogWriteBackReread(w, id, climb, entry) ==
    WriteJson(w, id, [w.store[id].json[1] EXCEPT !.entries = AppendEntry(@, entry)])

\* log_entry(): climb["entries"].append(entry) and the whole record written back
LogWriteBack(w, id, climb, entry) ==
    WriteJson(w, id, [climb EXCEPT !.entries = AppendEntry(@, entry)])

\* log_entry(): json.dump(climb, f)
CWriteLog(p) ==
    /\ pc[p] = "l_write"
    /\ Stepped(p, "l_write", "menu", local[p],
               LogWriteBack(World, local[p].active_climb[1], local[p].climb[1],
                            local[p].entry[1]))

\* end_climb(): active_climb = is_active_climb()
CEndScan(p) ==
    /\ pc[p] = "menu"
    /\ clock < MaxConcClock
    /\ \E found \in Scans(store) :
          IF found = <<>>
          THEN Stepped(p, "end_refused", "menu", AtMenu, World)
          ELSE Stepped(p, "end_scan", "e_read",
                       [AtMenu EXCEPT !.caller = "end", !.active_climb = found],
                       World)

\* end_climb(): climb = json.load(f)
CEndRead(p) ==
    /\ pc[p] = "e_read"
    /\ Stepped(p, "e_read", "e_write",
               [local[p] EXCEPT !.climb = store[local[p].active_climb[1]].json],
               World)

\* end_climb(): end_time and end_location set, the record written back
CEndWrite(p) ==
    /\ pc[p] = "e_write"
    /\ Stepped(p, "e_write", "menu", local[p],
               WriteJson(Drawn(Tick(World)), local[p].active_climb[1],
                         SetEnd(local[p].climb[1], Now(World), GetLocation(World))))

ConcNext ==
    \E p \in Procs :
        \/ CStartScan(p)
        \/ CName(p)
        \/ CMkdir(p)
        \/ CWriteNew(p)
        \/ CLogScan(p)
        \/ CAutoStartScan(p)
        \/ CRescan(p)
        \/ CRead(p)
        \/ CType(p)
        \/ CPayload(p)
        \/ CWriteLog(p)
        \/ CEndScan(p)
        \/ CEndRead(p)
        \/ CEndWrite(p)

SpecConc == Init /\ [][ConcNext]_vars

-----------------------------------------------------------------------------
(* Properties.  prev and prevRoot hold the store as it was before the handler *)
(* named by op ran, so a statement about one operation is a state predicate.  *)

\* the record in climb directory id of store s
Record(s, id) == s[id].json[1]

\* the record of climb id has end_time
Closed(s, id) == ~LacksEndTime(Record(s, id))

\* sequence p is a prefix of sequence q
IsPrefix(p, q) == Len(p) <= Len(q) /\ SubSeq(q, 1, Len(p)) = p

\* the climb directories the last handler created
Created == DOMAIN store \ DOMAIN prev

\* the climb name the name prompt accepted in the last handler
AcceptedName == Strip(asked[Len(asked)])

\* C1: after any sequence of start, log, end, list, clear and exit from an
\* empty store, at most one climb record lacks end_time.
C1_AtMostOneActive == Cardinality(ActiveClimbs(store)) <= 1

C1_Witness ==
    /\ op = "start"
    /\ Cardinality(ActiveClimbs(store)) = 1
    /\ Cardinality(DOMAIN store) >= 2

\* C2: start while a climb is active prints the already-active message and
\* changes nothing: no directory is created, the name prompt is not reached,
\* no record is modified.
C2_StartWhileActiveRefused ==
    (op = "start" /\ ActiveClimbs(prev) # {}) =>
        /\ \E id \in ActiveClimbs(prev) : out = << <<"already_active", id>> >>
        /\ store = prev
        /\ rootExists = prevRoot
        /\ asked = <<>>
        /\ proc = "running"

C2_Witness ==
    /\ op = "start"
    /\ \E id \in ActiveClimbs(prev) :
          Record(prev, id).entries = <<>> /\ out = << <<"already_active", id>> >>

\* C3: end with no active climb prints the no-active message and changes
\* nothing: every record, every closed climb's end_time and end_location
\* included, is as before.
C3_EndWithoutActiveRefused ==
    (op = "end" /\ ActiveClimbs(prev) = {}) =>
        /\ out = << <<"no_active">> >>
        /\ store = prev
        /\ rootExists = prevRoot
        /\ proc = "running"

C3_Witness ==
    /\ op = "end"
    /\ ActiveClimbs(prev) = {}
    /\ \E id \in DOMAIN prev : Closed(prev, id)
    /\ out = << <<"no_active">> >>

\* C4 as stated: log with no active climb leaves exactly one more climb, which
\* is active and has exactly one entry.
C4_AutoStartLogsOneEntry ==
    (op = "log" /\ ActiveClimbs(prev) = {}) =>
        \E id \in Created :
            /\ DOMAIN store = DOMAIN prev \cup {id}
            /\ ActiveClimbs(store) = {id}
            /\ Len(Record(store, id).entries) = 1

\* C4 amended: log with no active climb leaves exactly one more climb, which
\* is active; it has exactly one entry when the entry type typed is text,
\* audio or image, and no entry when it is anything else.  The climbs there
\* before are untouched.
C4_AutoStartThenEntryIfTypeKnown ==
    (op = "log" /\ ActiveClimbs(prev) = {}) =>
        \E id \in Created :
            /\ DOMAIN store = DOMAIN prev \cup {id}
            /\ ActiveClimbs(store) = {id}
            /\ typed # <<>>
            /\ Len(Record(store, id).entries)
                  = IF Lower(Strip(typed[1])) \in EntryTypes THEN 1 ELSE 0
            /\ \A c \in DOMAIN prev : store[c] = prev[c]

C4_Witness ==
    /\ op = "log"
    /\ ActiveClimbs(prev) = {}
    /\ DOMAIN prev # {}
    /\ \E id \in Created :
          /\ ActiveClimbs(store) = {id}
          /\ Len(Record(store, id).entries) = 1

\* C5: clear while a climb is active prints the cannot-clear message without
\* asking for confirmation and changes nothing: the climb directories, the
\* records and the payload files are as before.
C5_ClearWhileActiveRefused ==
    (op = "clear" /\ ActiveClimbs(prev) # {}) =>
        /\ \E id \in ActiveClimbs(prev) : out = << <<"cannot_clear", id>> >>
        /\ store = prev
        /\ rootExists = prevRoot
        /\ answered = <<>>
        /\ proc = "running"

C5_Witness ==
    /\ op = "clear"
    /\ ActiveClimbs(prev) # {}
    /\ Cardinality(DOMAIN prev) >= 2
    /\ \E id \in DOMAIN prev : prev[id].payloads # <<>>
    /\ store = prev

\* C6: clear, confirmed, with no active climb leaves the store root present
\* and empty and the program running, from every reachable store state.
C6_ClearLeavesEmptyRoot ==
    (op = "clear" /\ ActiveClimbs(prev) = {}
        /\ answered # <<>> /\ SaidYes(answered[1])) =>
        /\ rootExists
        /\ store = <<>>
        /\ proc = "running"

\* C7: a handler that reaches the name prompt creates exactly one climb
\* directory, new to the store; for a non-empty accepted name it is the name
\* itself when no climb has that name, and otherwise the name followed by the
\* smallest positive integer k such that name+k is not a climb.
C7_CreateNumbering ==
    asked # <<>> =>
        /\ DOMAIN prev \subseteq DOMAIN store
        /\ Cardinality(Created) = 1
        /\ AcceptedName # <<>> =>
              \A id \in Created :
                  IF AcceptedName \notin DOMAIN prev
                  THEN id = AcceptedName
                  ELSE \E k \in 1 .. (Cardinality(DOMAIN prev) + 1) :
                          /\ id = AcceptedName \o Str(k)
                          /\ \A j \in 1 .. (k - 1) :
                                AcceptedName \o Str(j) \in DOMAIN prev

C7_Witness ==
    /\ asked # <<>>
    /\ AcceptedName = <<"a">>
    /\ {<<"a">>, <<"a", "1">>} \subseteq DOMAIN prev
    /\ Created = {<<"a", "2">>}

\* C8: a name that is empty or contains a whitespace character is refused at
\* the name prompt: no climb directory is created for it.
C8_InvalidNameCreatesNothing ==
    (asked # <<>>
        /\ (AcceptedName = <<>>
            \/ \E i \in DOMAIN AcceptedName : AcceptedName[i] \in Whitespace)) =>
        Created = {}

\* C9: entries are append-only and in logging order: over every operation a
\* surviving climb's old entries are a prefix of its new entries, and a
\* logged entry is the one new element, last in the active climb's entries,
\* whatever its type.
C9_EntriesAppendOnly ==
    /\ \A id \in DOMAIN prev \cap DOMAIN store :
          IsPrefix(Record(prev, id).entries, Record(store, id).entries)
    /\ (op = "log" /\ out # <<>> /\ out[Len(out)] = <<"logged">>) =>
          \E id \in ActiveClimbs(store) :
              LET old == IF id \in DOMAIN prev THEN Record(prev, id).entries ELSE <<>>
                  new == Record(store, id).entries
              IN  /\ Len(new) = Len(old) + 1
                  /\ SubSeq(new, 1, Len(old)) = old
                  /\ new[Len(new)].time = clock - 1
                  /\ new[Len(new)].type = EntryKind(Lower(Strip(typed[1]))).type

C9_Witness ==
    /\ op = "log"
    /\ out = << <<"logged">> >>
    /\ \E id \in ActiveClimbs(store) :
          /\ Len(Record(store, id).entries) >= 2
          /\ Record(store, id).entries[1].type # Record(store, id).entries[2].type

\* C10: once a climb record has end_time, no operation changes the climb: its
\* record and files stay as they are, and it leaves the store only by clear.
C10_ClosedClimbFrozen ==
    \A id \in DOMAIN prev :
        Closed(prev, id) =>
            IF id \in DOMAIN store THEN store[id] = prev[id] ELSE op = "clear"

C10_Witness ==
    /\ op \in {"start", "log", "end"}
    /\ store # prev
    /\ \E id \in DOMAIN prev : Closed(prev, id) /\ Len(Record(prev, id).entries) > 0

\* C11: exit never ends the program while a climb is active: on "yes" the
\* active climb is closed before the process exits, on any other answer the
\* process keeps running with the store as it was; whenever the program has
\* exited, no climb lacks end_time.
C11_ExitEndsActiveClimb ==
    /\ proc = "exited" => ActiveClimbs(store) = {}
    /\ (op = "exit" /\ ActiveClimbs(prev) # {}) =>
          /\ answered # <<>>
          /\ IF SaidYes(answered[1])
             THEN /\ proc = "exited"
                  /\ \A id \in ActiveClimbs(prev) :
                        id \in DOMAIN store /\ Closed(store, id)
             ELSE proc = "running" /\ store = prev

C11_Witness ==
    /\ op = "exit"
    /\ proc = "exited"
    /\ ActiveClimbs(prev) # {}
    /\ store # prev

\* C12: log with an entry type other than text, audio or image while a climb
\* is active is aborted: no payload file is written, no entry is appended,
\* every climb directory and record is as before.
C12_UnknownTypeAborted ==
    (op = "log" /\ ActiveClimbs(prev) # {}) =>
        /\ typed # <<>>
        /\ Lower(Strip(typed[1])) \notin EntryTypes =>
              /\ store = prev
              /\ out = << <<"invalid_type">> >>
              /\ proc = "running"

C12_Witness ==
    /\ op = "log"
    /\ typed = << <<"v", "i", "d", "e", "o">> >>
    /\ \E id \in ActiveClimbs(prev) : Len(Record(prev, id).entries) > 0
    /\ Cardinality(DOMAIN prev) >= 2
    /\ store = prev

\* C13: start with no active climb adds exactly one climb; its record has
\* start_time and start_location set, empty entries and no end_time; the
\* other climbs are untouched and is_active_climb() then returns the new one.
C13_StartCreatesActiveClimb ==
    (op = "start" /\ ActiveClimbs(prev) = {}) =>
        \E id \in Created :
            /\ DOMAIN store = DOMAIN prev \cup {id}
            /\ \A c \in DOMAIN prev : store[c] = prev[c]
            /\ Record(store, id)
                  = [start_time |-> clock - 1,
                     start_location |-> <<rng - 1, 2 * (rng - 1)>>,
                     entries |-> <<>>]
            /\ store[id].payloads = <<>>
            /\ IsActiveClimb(store) = <<id>>
            /\ out[Len(out)] = <<"started", id>>

C13_Witness ==
    /\ op = "start"
    /\ DOMAIN prev # {}
    /\ ActiveClimbs(prev) = {}
    /\ \E id \in Created : IsActiveClimb(store) = <<id>>

\* the record fields other than entries, end_time and end_location agree
SameStart(old, new) ==
    old.start_time = new.start_time /\ old.start_location = new.start_location

\* C14: log and end modify only the active climb.  No operation changes a
\* climb's start_time or start_location.  A logged entry changes nothing but
\* the active climb's entries and adds one payload file to it; an end changes
\* nothing but the active climb's end_time and end_location; and after both
\* every other climb is there as before (a log that had to start a climb
\* first has added that climb and no other).
C14_OnlyActiveClimbModified ==
    /\ \A id \in DOMAIN prev \cap DOMAIN store :
          SameStart(Record(prev, id), Record(store, id))
    /\ (op = "log" /\ out # <<>> /\ out[Len(out)] = <<"logged">>) =>
          \E a \in ActiveClimbs(store) :
              /\ DOMAIN store = DOMAIN prev \cup {a}
              /\ ActiveClimbs(prev) \subseteq {a}
              /\ \A c \in DOMAIN prev \ {a} : store[c] = prev[c]
              /\ DOMAIN Record(store, a) = {"start_time", "start_location", "entries"}
              /\ store[a].folders = JournalEntryFolders
              /\ LET before == IF a \in DOMAIN prev THEN prev[a].payloads ELSE <<>>
                 IN  /\ Cardinality(DOMAIN store[a].payloads \ DOMAIN before) = 1
                     /\ \A f \in DOMAIN before :
                           f \in DOMAIN store[a].payloads
                           /\ store[a].payloads[f] = before[f]
    /\ (op = "end" /\ ActiveClimbs(prev) # {}) =>
          \E a \in ActiveClimbs(prev) :
              /\ DOMAIN store = DOMAIN prev
              /\ \A c \in DOMAIN prev \ {a} : store[c] = prev[c]
              /\ store[a].payloads = prev[a].payloads
              /\ store[a].folders = prev[a].folders
              /\ Record(store, a).entries = Record(prev, a).entries
              /\ Closed(store, a)

C14_Witness ==
    /\ op = "end"
    /\ Cardinality(DOMAIN prev) >= 2
    /\ \E a \in ActiveClimbs(prev) :
          Len(Record(prev, a).entries) > 0 /\ Closed(store, a)

\* the folder and extension log_entry() uses for an entry of the given "type"
FolderOf(type) == IF type = "image" THEN "images" ELSE type

ExtOf(type) ==
    CASE type = "text" -> ".txt"
      [] type = "audio" -> ".mp3"
      [] type = "image" -> ".jpg"
      [] OTHER -> ""

\* the payload file the entry of climb id references is on disk
PayloadOnDisk(s, id, entry) ==
    /\ entry.type \in { "text", "audio", "image" }
    /\ entry.file_path = <<id, FolderOf(entry.type), entry.time, ExtOf(entry.type)>>
    /\ FolderOf(entry.type) \in s[id].folders
    /\ <<FolderOf(entry.type), entry.time, ExtOf(entry.type)>> \in DOMAIN s[id].payloads

\* C15: in every state, also between the steps of a handler and with two
\* processes at work, each entry of each climb record references a payload
\* file that exists in that climb's folder for the entry's type, named by the
\* entry's time with the extension of the type; and a process about to write
\* the record has already written the payload of the entry it adds.
C15_EntriesHavePayloads ==
    /\ \A id \in DOMAIN store :
          store[id].json # <<>> =>
              \A i \in DOMAIN Record(store, id).entries :
                  PayloadOnDisk(store, id, Record(store, id).entries[i])
    /\ \A p \in Procs :
          pc[p] = "l_write" =>
              PayloadOnDisk(store, local[p].active_climb[1], local[p].entry[1])

C15_Witness ==
    /\ op = "l_write"
    /\ \E id \in DOMAIN store :
          /\ store[id].json # <<>>
          /\ Len(Record(store, id).entries) = 2
          /\ Record(store, id).entries[1].type # Record(store, id).entries[2].type
          /\ Len(Record(prev, id).entries) = 1

\* the handlers of the menu, all of which scan for the active climb
Handlers == { "start", "log", "end", "list", "clear", "exit" }

\* C16: a handler run while a state file is not valid JSON, and no record
\* lacking end_time stops the walk before that file is read, reports the
\* error as a message, leaves the store as it was and returns to the menu.
C16_CorruptRecordReported ==
    (op \in Handlers /\ Corrupt(prev) # {} /\ ActiveClimbs(prev) = {}) =>
        /\ out # <<>>
        /\ store = prev
        /\ proc = "running"

\* C17: with two processes the steps of two starts interleave so that two
\* climbs lack end_time at once; every process that wrote a new record had
\* found no active climb in its own scan, so there are never more climbs
\* lacking end_time than there are processes.
C17_ActiveClimbsUpToProcesses ==
    Cardinality(ActiveClimbs(store)) <= Cardinality(Procs)

C17_Witness ==
    /\ op = "s_write"
    /\ Cardinality(ActiveClimbs(prev)) = 1
    /\ Cardinality(ActiveClimbs(store)) = 2
    /\ \A id \in ActiveClimbs(store) : Record(store, id).entries = <<>>
    /\ \A p \in Procs : pc[p] = "menu" /\ local[p].caller = "start"

\* the entries of a record as a set
EntrySet(climb) == { climb.entries[i] : i \in DOMAIN climb.entries }

\* C18 as stated: after the record write of log_entry(), what another process
\* wrote to the same climb since this process read it is still there, each
\* entry still in entries and an end_time still set.
C18_OtherWriterSurvives ==
    op = "l_write" =>
        LET id == local[actor].active_climb[1]
        IN  /\ EntrySet(Record(prev, id)) \subseteq EntrySet(Record(store, id))
            /\ Closed(prev, id) => Closed(store, id)

\* C18: the record write of log_entry() replaces the whole record by the copy
\* this process read with its own entry appended.  An entry another process
\* appended since the read is no longer in entries, an end_time set since the
\* read is gone, and nothing else in the store changes: the payload files of
\* the entries that were dropped stay on disk.
C18_WriteBackReplacesRecord ==
    op = "l_write" =>
        LET id == local[actor].active_climb[1]
            read == local[actor].climb[1]
            entry == local[actor].entry[1]
        IN  /\ Record(store, id) = [read EXCEPT !.entries = Append(@, entry)]
            /\ LacksEndTime(read) => ~Closed(store, id)
            /\ \A e \in EntrySet(Record(prev, id)) \ EntrySet(read) :
                  e \notin EntrySet(Record(store, id))
            /\ store[id].payloads = prev[id].payloads
            /\ store[id].folders = prev[id].folders
            /\ DOMAIN store = DOMAIN prev
            /\ \A c \in DOMAIN prev \ {id} : store[c] = prev[c]

C18_Witness ==
    /\ op = "l_write"
    /\ LET id == local[actor].active_climb[1]
       IN  /\ Closed(prev, id)
           /\ Len(Record(prev, id).entries) = 1
           /\ ~Closed(store, id)
           /\ Record(store, id).entries = local[actor].entry
           /\ Record(prev, id).entries # local[actor].entry
           /\ Cardinality(DOMAIN store[id].payloads) = 2

\* C19: list reports every climb directory of the store and marks a climb as
\* active exactly when its record lacks end_time; a closed climb is never
\* marked, whatever its name.
C19_ListMarksExactlyActive ==
    (op = "list" /\ DOMAIN store # {}) =>
        /\ { l[1] : l \in listed } = DOMAIN store
        /\ \A l \in listed : l[2] <=> l[1] \in ActiveClimbs(store)

=============================================================================
